---- MODULE Spec2Model ----
(***************************************************************************)
(* The Convos bridge extension of pi-convos (the headless-capable          *)
(* extension, src/unnamed/part_001 lines 290-1093) as a state machine:     *)
(* the controller's module-level variables, the child processes it         *)
(* spawns, the persisted record, and one action per handler.               *)
(***************************************************************************)
EXTENDS Integers, Sequences, FiniteSets, TLC

\* ---------------------------------------------------------------- bounds
\* Child processes spawned by one controller instance.
MaxProcs == 2
\* Nanosecond timestamps are 1..MaxTs; 0 stands for null / absent.
MaxTs == 2
\* Conversation identifiers are 1..MaxConv; 0 stands for null.
MaxConv == 1
\* Messages returned by one catch-up query.
MaxFetch == 1
\* Error-stream lines received per process.
MaxStderrLines == 1
\* Error-stream lines received by the one process of a burst (more than the
\* 50 the buffer keeps).
MaxBurst == 52

\* ------------------------------------------------------ program constants
\* "Keep only last 50 lines"
StderrCap == 50

Null == 0
Pids == 1..MaxProcs
Timestamps == 1..MaxTs
ConvIds == 1..MaxConv
\* exit codes handed to proc.on("exit"): 0, a non-zero code, or null (-1) when
\* the process was terminated by a signal
NullCode == 0 - 1
ExitCodes == {0, 1, NullCode}

VARIABLES
    \* module-level variables of the extension (lines 328-343)
    agentProcess, stdinWriter, rl, isReady,
    conversationId, inviteUrl, qrCodePath,
    lastMessageFromConvos, headlessMode,
    lastSeenTimestampNs, ownInboxId,
    \* deployment configuration (lines 343-355)
    convosEnvFile, worktreeRoot,
    \* the file at getConvosConfigPath(): its kind ("missing", "unreadable",
    \* "invalid" when it is not JSON, "json") and the PersistedState it holds
    persisted,
    \* the child processes: "none" (not spawned), "live", "exited"
    pstate,
    \* whether the readline interface on p's stdout still dispatches lines
    rlOpen,
    \* the stderrLines closure variable of each startAgent call, and how many
    \* error-stream lines the process has produced so far
    stderrLines, stderrCount,
    \* the setTimeout armed by stopAgent for p: "none", "armed", "fired"
    timer,
    \* SIGTERM signals delivered to p
    signals,
    \* whether a ready line of p has been dispatched
    everReady,
    \* Date.now() * 1_000_000
    now,
    \* what the most recent handler did that the host or a process can observe
    out,
    \* the watermark the record held when this controller instance was
    \* created (written by the instance that ran before the restart)
    wmBeforeRestart

ctrl == <<agentProcess, stdinWriter, rl, isReady>>
session == <<conversationId, inviteUrl, qrCodePath, lastSeenTimestampNs>>
router == <<lastMessageFromConvos, headlessMode, ownInboxId>>
cfg == <<convosEnvFile, worktreeRoot>>
procs == <<pstate, rlOpen, stderrLines, stderrCount, timer, signals, everReady>>
hist == <<wmBeforeRestart>>
vars == <<ctrl, session, router, cfg, persisted, procs, now, out, hist>>

\* ---------------------------------------------------------------- outputs
NoRecord == [kind |-> "missing", conversationId |-> Null, inviteUrl |-> Null,
             lastSeenTimestampNs |-> Null]

\* a line that is not there (handlers other than the line handler)
NoLine == [json |-> "none", event |-> "none", conversationId |-> Null,
           inviteUrl |-> Null, qrCodePath |-> Null, sentAtNs |-> Null,
           attachment |-> "none"]

\* one pi.sendMessage / pi.sendUserMessage / ctx.ui.notify / console call
Pub(api, type, trigger, data) ==
    [api |-> api, type |-> type, triggerTurn |-> trigger, data |-> data]

\* the outputs of one handler run: which handler, for which process, the line
\* or exit code it was given, the protocol event it dispatched, what it
\* published, the commands it wrote to a process's stdin, the process it
\* spawned (with its arguments), the catch-up queries it issued with the
\* answer it got, and whether an exception escaped it
NoFetch == [ok |-> FALSE, messages |-> <<>>]

Out(op, pid, line, code, event, pubs, writes, spawned, args, queries, threw) ==
    [op |-> op, pid |-> pid, line |-> line, code |-> code, event |-> event,
     pubs |-> pubs, writes |-> writes, spawned |-> spawned, args |-> args,
     queries |-> queries, fetch |-> NoFetch, threw |-> threw]

Quiet(op) == Out(op, Null, NoLine, 0, "none", <<>>, <<>>, Null, "none", 0, FALSE)

\* getConvosConfigPath() is not null: beside the env file, or in the worktree
HasConfigPath == convosEnvFile \/ worktreeRoot

\* a load without the try block: the failure of readFileSync or JSON.parse
\* escapes to the caller
loadEscapes(file) == [raised |-> TRUE, state |-> NoRecord]

\* the catch block of loadPersistedState(): null
loadCatch(file) == [raised |-> FALSE, state |-> NoRecord]

\* loadPersistedState() on the file: whether an exception leaves it, and the
\* state it returns (null is the record with every field absent)
load(file) ==
    IF ~HasConfigPath \/ file.kind = "missing"
    THEN [raised |-> FALSE, state |-> NoRecord]
    ELSE IF file.kind \in {"unreadable", "invalid"}
    THEN loadCatch(file)
    ELSE [raised |-> FALSE, state |-> file]

loadPersistedState == load(persisted).state

\* loadPersistedConversation()
loadPersistedConversation == loadPersistedState.conversationId

\* persistState() gets as far as mkdirSync / writeFileSync
persistWrites(conv) == conv # Null /\ HasConfigPath

\* persistState(): the record after the call; fsOk tells whether the file
\* system accepts the write
persistState(conv, invite, wm, file, fsOk) ==
    IF persistWrites(conv) /\ fsOk
    THEN [kind |-> "json", conversationId |-> conv, inviteUrl |-> invite,
          lastSeenTimestampNs |-> wm]
    ELSE file

\* persistState() throws out of mkdirSync / writeFileSync
persistThrows(conv, fsOk) == persistWrites(conv) /\ ~fsOk

\* the files a controller instance can find: none, one written by
\* persistState() on a ready, message or send of an earlier instance, one that
\* cannot be read, or one that is not JSON
PriorRecords ==
    {NoRecord} \cup
    {[kind |-> "json", conversationId |-> c, inviteUrl |-> c,
      lastSeenTimestampNs |-> t] : c \in ConvIds, t \in {Null} \cup Timestamps} \cup
    {[NoRecord EXCEPT !.kind = k] : k \in {"unreadable", "invalid"}}

\* ------------------------------------------------------------------- Init
Init ==
    /\ agentProcess = Null /\ stdinWriter = Null /\ rl = Null /\ isReady = FALSE
    /\ conversationId = Null /\ inviteUrl = Null /\ qrCodePath = Null
    /\ lastMessageFromConvos = FALSE /\ headlessMode = FALSE
    /\ lastSeenTimestampNs = Null /\ ownInboxId = Null
    /\ convosEnvFile \in BOOLEAN /\ worktreeRoot \in BOOLEAN
    /\ persisted \in PriorRecords
    /\ wmBeforeRestart = persisted.lastSeenTimestampNs
    /\ pstate = [p \in Pids |-> "none"]
    /\ rlOpen = [p \in Pids |-> FALSE]
    /\ stderrLines = [p \in Pids |-> <<>>]
    /\ stderrCount = [p \in Pids |-> 0]
    /\ timer = [p \in Pids |-> "none"]
    /\ signals = [p \in Pids |-> 0]
    /\ everReady = [p \in Pids |-> FALSE]
    /\ now = 1
    /\ out = Quiet("init")

\* ------------------------------------------------------- process lifecycle
FreePids == {p \in Pids : pstate[p] = "none"}
NextPid == CHOOSE p \in FreePids : \A q \in FreePids : p <= q
Live(p) == pstate[p] = "live"

\* startAgent(args): spawn, then bind agentProcess, stdinWriter and rl to the
\* new process; the previous rl, if any, is overwritten without being closed
startAgent(p) ==
    /\ pstate' = [pstate EXCEPT ![p] = "live"]
    /\ agentProcess' = p
    /\ stdinWriter' = p
    /\ rl' = p
    /\ rlOpen' = [rlOpen EXCEPT ![p] = TRUE]
    /\ UNCHANGED <<isReady, stderrLines, stderrCount, timer, signals, everReady>>

\* a writer that does not ask whether the stream is writable
stdinWriteAlways(cmd, w) ==
    IF stdinWriter # Null THEN <<[pid |-> stdinWriter, cmd |-> cmd]>> ELSE <<>>

\* stdinWriter(cmd): the commands that reach the process's stdin; w tells
\* whether proc.stdin reports writable
stdinWrite(cmd, w) ==
    IF stdinWriter # Null /\ w THEN <<[pid |-> stdinWriter, cmd |-> cmd]>> ELSE <<>>

\* a close after which the interface goes on emitting lines
rlCloseLeavesOpen(r) == rlOpen

\* rl?.close(): the interface stops reading the process's stdout
rlClose(r) == IF r # Null THEN [rlOpen EXCEPT ![r] = FALSE] ELSE rlOpen

\* stopAgent()
stopAgent ==
    IF agentProcess # Null
    THEN /\ timer' = [timer EXCEPT ![agentProcess] = "armed"]
         /\ agentProcess' = Null
         /\ stdinWriter' = Null
         /\ isReady' = FALSE
         /\ rlOpen' = rlClose(rl)
         /\ rl' = Null
    ELSE UNCHANGED <<timer, agentProcess, stdinWriter, isReady, rlOpen, rl>>

\* a stop that writes its command without looking at agentProcess
stopWritesUnguarded(w) == IF w THEN <<[pid |-> stdinWriter, cmd |-> "stop"]>> ELSE <<>>

\* what stopAgent() writes
stopWrites(w) == IF agentProcess # Null THEN stdinWrite("stop", w) ELSE <<>>

\* a kill that signals the pid whether or not the process has exited
killAlways(p) == [signals EXCEPT ![p] = @ + 1]

\* a kill that never signals
killNever(p) == signals

\* proc.kill("SIGTERM") of a ChildProcess: the signal is sent only while the
\* process has not exited; on an exited process the call returns false
kill(p) == [signals EXCEPT ![p] = IF Live(p) THEN @ + 1 ELSE @]

\* the setTimeout callback armed by stopAgent (2000 ms after the stop)
GraceTimerFire(p) ==
    /\ timer[p] = "armed"
    /\ timer' = [timer EXCEPT ![p] = "fired"]
    /\ signals' = kill(p)
    /\ out' = Quiet("grace_timer")
    /\ UNCHANGED <<ctrl, session, router, cfg, persisted, now, hist>>
    /\ UNCHANGED <<pstate, rlOpen, stderrLines, stderrCount, everReady>>

\* the publish of proc.on("exit"): "exited with code ... before becoming
\* ready" with the diagnostic buffer (a startup failure), the informational
\* "exited (code ...)" notice, or nothing
exitReport(p, code, wasReady) ==
    IF ~wasReady /\ code # 0
    THEN <<Pub("sendMessage", "startup_failure", FALSE,
               [code |-> code, stderr |-> stderrLines[p]])>>
    ELSE IF wasReady
    THEN <<Pub("sendMessage", "process_exited", FALSE,
               [code |-> code, stderr |-> <<>>])>>
    ELSE <<>>

\* proc.on("exit", code) of process p
Exit(p, code) ==
    /\ Live(p)
    /\ pstate' = [pstate EXCEPT ![p] = "exited"]
    /\ isReady' = FALSE
    /\ agentProcess' = Null
    /\ stdinWriter' = Null
    \* rl?.close() closes the current interface, whichever process it reads;
    \* p's own interface ends with p's stdout
    /\ rlOpen' = [q \in Pids |-> IF q = rl \/ q = p THEN FALSE ELSE rlOpen[q]]
    /\ rl' = Null
    /\ out' = Out("exit", p, NoLine, code, "none", exitReport(p, code, isReady),
                  <<>>, Null, "none", 0, FALSE)
    /\ UNCHANGED <<session, router, cfg, persisted, now, hist>>
    /\ UNCHANGED <<stderrLines, stderrCount, timer, signals, everReady>>

\* a listener that drops the newest line, not the oldest, beyond 50
pushStderrKeepOldest(buf, line) ==
    IF Len(buf) >= StderrCap THEN buf ELSE Append(buf, line)

\* the stderr line listener: push, then drop the oldest beyond 50
pushStderr(buf, line) ==
    LET pushed == Append(buf, line)
    IN IF Len(pushed) > StderrCap THEN Tail(pushed) ELSE pushed

\* one line on p's error stream; a line is named by its arrival number, and
\* max bounds the lines a process prints
StderrLine(p, max) ==
    /\ Live(p)
    /\ stderrCount[p] < max
    /\ stderrCount' = [stderrCount EXCEPT ![p] = @ + 1]
    /\ stderrLines' = [stderrLines EXCEPT ![p] = pushStderr(@, stderrCount[p] + 1)]
    /\ out' = Quiet("stderr_line")
    /\ UNCHANGED <<ctrl, session, router, cfg, persisted, now, hist>>
    /\ UNCHANGED <<pstate, rlOpen, timer, signals, everReady>>

\* ------------------------------------------------------------ start / stop
\* a start that does not look for the CLI
cliCheckSkipped(cliFound) == FALSE

\* execSync("which convos") throws: the CLI is not installed
cliMissing(cliFound) == ~cliFound

\* pi.on("session_start"): the headless auto-start
SessionStart(hasUI, cliFound, initOk) ==
    /\ (~hasUI /\ ~cliMissing(cliFound) /\ (convosEnvFile => initOk) /\ ~load(persisted).raised)
          => FreePids # {}
    /\ IF hasUI
       THEN /\ out' = Quiet("session_start")
            /\ UNCHANGED <<ctrl, session, router, procs>>
       ELSE /\ headlessMode' = TRUE
            /\ UNCHANGED <<lastMessageFromConvos, ownInboxId>>
            /\ IF cliMissing(cliFound)
               THEN /\ out' = Out("session_start", Null, NoLine, 0, "none",
                                  <<Pub("console", "cli_not_found", FALSE, 0)>>,
                                  <<>>, Null, "none", 0, FALSE)
                    /\ UNCHANGED <<ctrl, session, procs>>
               ELSE IF convosEnvFile /\ ~initOk
               THEN /\ out' = Out("session_start", Null, NoLine, 0, "none",
                                  <<Pub("console", "autostart_failed", FALSE, 0)>>,
                                  <<>>, Null, "none", 0, FALSE)
                    /\ UNCHANGED <<ctrl, session, procs>>
               ELSE IF load(persisted).raised
               THEN /\ out' = Out("session_start", Null, NoLine, 0, "none",
                                  <<Pub("console", "autostart_failed", FALSE, 0)>>,
                                  <<>>, Null, "none", 0, FALSE)
                    /\ UNCHANGED <<ctrl, session, procs>>
               ELSE LET savedState == loadPersistedState
                        p == NextPid
                    IN /\ lastSeenTimestampNs' =
                              IF savedState.lastSeenTimestampNs # Null
                              THEN savedState.lastSeenTimestampNs
                              ELSE lastSeenTimestampNs
                       /\ UNCHANGED <<conversationId, inviteUrl, qrCodePath>>
                       /\ startAgent(p)
                       /\ out' = Out("session_start", p, NoLine, 0, "none", <<>>, <<>>, p,
                                     IF savedState.conversationId # Null
                                     THEN "resume" ELSE "new", 0, FALSE)
    /\ UNCHANGED <<cfg, persisted, now, hist>>

\* the argument strings of /convos-start after the split at blanks and
\* quotes, each word an option flag ("--name"), the value of an option ("Bot")
\* or a conversation id: none, a flag with its value, an id
ArgLists == {<<>>, <<"flag", "value">>, <<"conv">>}

\* a.startsWith("-")
startsWithDash(a) == a = "flag"

\* argList.some((a) => !a.startsWith("-"))
hasConversationArg(argList) ==
    \E i \in 1..Len(argList) : ~startsWithDash(argList[i])

\* the /convos-start command
ConvosStart(argList, cliFound) ==
    /\ (agentProcess = Null /\ ~cliMissing(cliFound) /\ ~load(persisted).raised)
          => FreePids # {}
    /\ IF agentProcess # Null
       THEN /\ out' = Out("convos-start", Null, NoLine, 0, "none",
                          <<Pub("notify", "already_running", FALSE, 0)>>,
                          <<>>, Null, "none", 0, FALSE)
            /\ UNCHANGED <<ctrl, procs>>
       ELSE IF cliMissing(cliFound)
       THEN /\ out' = Out("convos-start", Null, NoLine, 0, "none",
                          <<Pub("notify", "cli_not_found", FALSE, 0)>>,
                          <<>>, Null, "none", 0, FALSE)
            /\ UNCHANGED <<ctrl, procs>>
       ELSE IF load(persisted).raised
       THEN /\ out' = Out("convos-start", Null, NoLine, 0, "none", <<>>, <<>>, Null,
                          "none", 0, TRUE)
            /\ UNCHANGED <<ctrl, procs>>
       ELSE LET persistedId == loadPersistedConversation
                p == NextPid
                how == IF ~hasConversationArg(argList) /\ persistedId # Null
                       THEN "resume"
                       ELSE IF ~hasConversationArg(argList) THEN "new" ELSE "explicit"
            IN /\ startAgent(p)
               /\ out' = Out("convos-start", p, NoLine, 0, "none",
                             <<Pub("notify", how, FALSE, 0)>>, <<>>, p, how, 0, FALSE)
    /\ UNCHANGED <<session, router, cfg, persisted, now, hist>>

\* the /convos-stop command; w: the process's stdin reports writable
ConvosStop(w) ==
    /\ IF agentProcess = Null
       THEN /\ out' = Out("convos-stop", Null, NoLine, 0, "none",
                          <<Pub("notify", "not_running", FALSE, 0)>>,
                          <<>>, Null, "none", 0, FALSE)
            /\ UNCHANGED <<ctrl, timer, rlOpen>>
       ELSE /\ stopAgent
            /\ out' = Out("convos-stop", agentProcess, NoLine, 0, "none",
                          <<Pub("notify", "stopped", FALSE, 0)>>,
                          stopWrites(w), Null, "none", 0, FALSE)
    /\ UNCHANGED <<session, router, cfg, persisted, now, hist>>
    /\ UNCHANGED <<pstate, stderrLines, stderrCount, signals, everReady>>

\* pi.on("session_shutdown"); fsOk: the file system accepts the write
SessionShutdown(w, fsOk) ==
    /\ IF headlessMode
       THEN /\ lastSeenTimestampNs' = now
            /\ persisted' = persistState(conversationId, inviteUrl, now, persisted, fsOk)
       ELSE UNCHANGED <<lastSeenTimestampNs, persisted>>
    /\ IF headlessMode /\ persistThrows(conversationId, fsOk)
       THEN /\ out' = Out("session_shutdown", Null, NoLine, 0, "none", <<>>, <<>>,
                          Null, "none", 0, TRUE)
            /\ UNCHANGED <<ctrl, timer, rlOpen>>
       ELSE /\ stopAgent
            /\ out' = Out("session_shutdown", agentProcess, NoLine, 0, "none", <<>>,
                          stopWrites(w), Null, "none", 0, FALSE)
    /\ UNCHANGED <<conversationId, inviteUrl, qrCodePath, router, cfg, now, hist>>
    /\ UNCHANGED <<pstate, stderrLines, stderrCount, signals, everReady>>

\* ---------------------------------------------------------------- catch-up
\* the inbox identifier of the bridge itself, and of somebody else
SelfInbox == 1
OtherInbox == 2

\* what `convos conversation messages ... --sent-after wm --direction ascending`
\* can answer: a failure, or at most MaxFetch messages sent after wm, oldest first
FetchedMessages(wm) ==
    [sentAtNs : {t \in Timestamps : t > wm},
     senderInboxId : {SelfInbox, OtherInbox},
     text : BOOLEAN]

Ascending(ms) == \A i \in 1..(Len(ms) - 1) : ms[i].sentAtNs <= ms[i + 1].sentAtNs

FetchResults(wm) ==
    {[ok |-> FALSE, messages |-> <<>>]} \cup
    {[ok |-> TRUE, messages |-> ms] :
        ms \in {m \in UNION {[1..n -> FetchedMessages(wm)] : n \in 0..MaxFetch} :
                   Ascending(m)}}

\* the summary lines of the steer message: one per missed message
summaryOf(missed) ==
    [i \in 1..Len(missed) |->
        [senderInboxId |-> missed[i].senderInboxId, sentAtNs |-> missed[i].sentAtNs]]

\* a catch block that surfaces the failure to the agent as a steer message
catchBlockSteers(r) ==
    [r EXCEPT !.queries = 1,
              !.pubs = <<Pub("sendUserMessage", "missed", TRUE, <<>>)>>]

\* the catch block of catchUpOnMissedMessages: the failure is logged to the
\* console and the function returns
catchBlock(r) ==
    [r EXCEPT !.queries = 1,
              !.pubs = <<Pub("console", "catchup_failed", FALSE, 0)>>]

\* catchUpOnMissedMessages(): the watermark, own inbox id, routing flag and
\* record after the call, what it published and how many queries it issued.
\* fetch: the answer of the query; ownRes: what getOwnInboxId() returns;
\* fsOk: the file system accepts the write
catchUpOnMissedMessages(conv, invite, wm, own, lmfc, file, fetch, ownRes, fsOk) ==
    LET same == [wm |-> wm, own |-> own, lmfc |-> lmfc, file |-> file,
                 pubs |-> <<>>, queries |-> 0]
    IN IF conv = Null \/ ~convosEnvFile \/ wm = Null THEN same
       ELSE IF ~fetch.ok THEN catchBlock(same)
       ELSE IF Len(fetch.messages) = 0 THEN [same EXCEPT !.queries = 1]
       ELSE LET own1 == IF own = Null THEN ownRes ELSE own
                missed == SelectSeq(fetch.messages,
                              LAMBDA m : m.senderInboxId # own1 /\ m.text)
                newest == fetch.messages[Len(fetch.messages)]
                moves == newest.sentAtNs # Null
                wm1 == IF moves THEN newest.sentAtNs ELSE wm
            IN IF Len(missed) = 0
               THEN [same EXCEPT !.queries = 1, !.own = own1]
               ELSE IF moves /\ persistThrows(conv, fsOk)
               THEN catchBlock([same EXCEPT !.own = own1, !.wm = wm1])
               ELSE [wm |-> wm1, own |-> own1, lmfc |-> TRUE,
                     file |-> IF moves
                              THEN persistState(conv, invite, wm1, file, fsOk)
                              ELSE file,
                     pubs |-> <<Pub("sendUserMessage", "missed", TRUE,
                                    summaryOf(missed))>>,
                     queries |-> 1]

\* ------------------------------------------------------------ line handler
Line(json, event, conv, invite, qr, ts, att) ==
    [json |-> json, event |-> event, conversationId |-> conv, inviteUrl |-> invite,
     qrCodePath |-> qr, sentAtNs |-> ts, attachment |-> att]

\* the ProtocolEvent discriminants the switch has a case for
Recognized == {"ready", "message", "member_joined", "sent", "error"}

\* the lines a process may print: text that is no JSON, the JSON value null,
\* another JSON value that is no object (a number, a string, true), an object
\* with an unknown discriminant, and the five events
StdoutLines ==
    {Line("invalid", "none", Null, Null, Null, Null, "none"),
     Line("null", "none", Null, Null, Null, Null, "none"),
     Line("scalar", "none", Null, Null, Null, Null, "none"),
     Line("object", "unknown", Null, Null, Null, Null, "none"),
     Line("object", "sent", Null, Null, Null, Null, "none"),
     Line("object", "member_joined", Null, Null, Null, Null, "none"),
     Line("object", "error", Null, Null, Null, Null, "none")}
    \cup {Line("object", "ready", c, u, u, Null, "none") : c \in ConvIds, u \in {Null, 1}}
    \cup {Line("object", "message", Null, Null, Null, t, a) :
             t \in {Null} \cup Timestamps, a \in {"none", "image", "file"}}

\* JSON.parse(line) throws
parseFails(line) == line.json = "invalid"

\* `switch (event.event)`: reading the property of null throws a TypeError; a
\* number, string or boolean has no such property; an object gives its value
discriminantThrows(line) == line.json = "null"
discriminant(line) == IF line.json = "object" THEN line.event ELSE "none"

LineOut(p, line, event, pubs, queries, threw) ==
    Out("line", p, line, 0, event, pubs, <<>>, Null, "none", queries, threw)

\* case "ready"
onReady(p, line, fetch, ownRes, fsOk, fsOk2) ==
    LET conv == line.conversationId
        invite == line.inviteUrl
        file1 == persistState(conv, invite, lastSeenTimestampNs, persisted, fsOk)
        cu == catchUpOnMissedMessages(conv, invite, lastSeenTimestampNs, ownInboxId,
                  lastMessageFromConvos, file1, fetch, ownRes, fsOk2)
    IN /\ isReady' = TRUE
       /\ conversationId' = conv
       /\ qrCodePath' = line.qrCodePath
       /\ inviteUrl' = invite
       /\ everReady' = [everReady EXCEPT ![p] = TRUE]
       /\ UNCHANGED headlessMode
       /\ IF persistThrows(conv, fsOk)
          THEN /\ out' = LineOut(p, line, "ready", <<>>, 0, TRUE)
               /\ UNCHANGED <<persisted, lastSeenTimestampNs, ownInboxId,
                              lastMessageFromConvos>>
          ELSE IF headlessMode
          THEN /\ persisted' = cu.file
               /\ lastSeenTimestampNs' = cu.wm
               /\ ownInboxId' = cu.own
               /\ lastMessageFromConvos' = cu.lmfc
               /\ out' = [LineOut(p, line, "ready",
                              cu.pubs \o <<Pub("sendMessage", "ready", FALSE, conv)>>,
                              cu.queries, FALSE)
                             EXCEPT !.fetch = IF cu.queries = 1 THEN fetch ELSE NoFetch]
          ELSE /\ persisted' = file1
               /\ out' = LineOut(p, line, "ready",
                             <<Pub("sendMessage", "ready", TRUE, conv)>>, 0, FALSE)
               /\ UNCHANGED <<lastSeenTimestampNs, ownInboxId, lastMessageFromConvos>>

\* the attachment branch is taken: the content describes a remote attachment
\* with an image file name, and a conversation is known
downloads(line) == line.attachment = "image" /\ conversationId # Null

\* mkdirSync(tmpDir) of the attachment branch throws, outside the try block
downloadThrows(line, dl) == downloads(line) /\ dl = "nodir"

\* a message handler that gives up silently when the download fails
messagePubsSilent(line, dl) ==
    IF downloads(line)
    THEN IF dl = "ok"
         THEN <<Pub("sendUserMessage", "image", TRUE, line.sentAtNs)>>
         ELSE <<>>
    ELSE <<Pub("sendMessage", "message", TRUE, line.sentAtNs)>>

\* the turn-triggering publish of case "message"; dl: "ok" when the download
\* and the read of the image succeed, "failed" when one of them throws,
\* "nodir" when the directory for the download cannot be created
messagePubs(line, dl) ==
    IF downloads(line)
    THEN IF dl = "ok"
         THEN <<Pub("sendUserMessage", "image", TRUE, line.sentAtNs)>>
         ELSE IF dl = "failed"
         THEN <<Pub("sendMessage", "download_failed", TRUE, line.sentAtNs)>>
         ELSE <<>>
    ELSE <<Pub("sendMessage", "message", TRUE, line.sentAtNs)>>

\* case "message"
onMessage(p, line, dl, fsOk) ==
    LET tracked == line.sentAtNs # Null
        wm1 == IF tracked THEN line.sentAtNs ELSE lastSeenTimestampNs
    IN /\ lastMessageFromConvos' = TRUE
       /\ lastSeenTimestampNs' = wm1
       /\ persisted' = IF tracked
                       THEN persistState(conversationId, inviteUrl, wm1, persisted, fsOk)
                       ELSE persisted
       /\ out' = IF tracked /\ persistThrows(conversationId, fsOk)
                 THEN LineOut(p, line, "message", <<>>, 0, TRUE)
                 ELSE LineOut(p, line, "message", messagePubs(line, dl), 0,
                              downloadThrows(line, dl))
       /\ UNCHANGED <<isReady, conversationId, inviteUrl, qrCodePath, headlessMode,
                      ownInboxId, everReady>>

\* rl.on("line") of process p
LineHandler(p, line, fetch, ownRes, dl, fsOk, fsOk2) ==
    /\ Live(p) /\ rlOpen[p]
    /\ IF parseFails(line)
       THEN /\ out' = LineOut(p, line, "none", <<>>, 0, FALSE)
            /\ UNCHANGED <<isReady, session, router, persisted, everReady>>
       ELSE IF discriminantThrows(line)
       THEN /\ out' = LineOut(p, line, "none", <<>>, 0, TRUE)
            /\ UNCHANGED <<isReady, session, router, persisted, everReady>>
       ELSE IF discriminant(line) = "ready"
       THEN onReady(p, line, fetch, ownRes, fsOk, fsOk2)
       ELSE IF discriminant(line) = "message"
       THEN onMessage(p, line, dl, fsOk)
       ELSE IF discriminant(line) \in {"member_joined", "error"}
       THEN /\ out' = LineOut(p, line, discriminant(line),
                          <<Pub("sendMessage", discriminant(line),
                                discriminant(line) = "member_joined", 0)>>, 0, FALSE)
            /\ UNCHANGED <<isReady, session, router, persisted, everReady>>
       ELSE IF discriminant(line) = "sent"
       THEN /\ out' = LineOut(p, line, "sent", <<>>, 0, FALSE)
            /\ UNCHANGED <<isReady, session, router, persisted, everReady>>
       ELSE /\ out' = LineOut(p, line, "none", <<>>, 0, FALSE)
            /\ UNCHANGED <<isReady, session, router, persisted, everReady>>
    /\ UNCHANGED <<agentProcess, stdinWriter, rl, cfg, now, hist>>
    /\ UNCHANGED <<pstate, rlOpen, stderrLines, stderrCount, timer, signals>>

\* ------------------------------------------------------------------- tools
ToolOut(op, type, writes, threw) ==
    Out(op, stdinWriter, NoLine, 0, "none", <<Pub("toolResult", type, FALSE, 0)>>,
        writes, Null, "none", 0, threw)

\* convos_send.execute
ConvosSend(w, fsOk) ==
    /\ IF stdinWriter = Null \/ ~isReady
       THEN /\ out' = ToolOut("convos_send", "error", <<>>, FALSE)
            /\ UNCHANGED <<lastSeenTimestampNs, persisted>>
       ELSE /\ lastSeenTimestampNs' = now
            /\ persisted' = persistState(conversationId, inviteUrl, now, persisted, fsOk)
            /\ out' = IF persistThrows(conversationId, fsOk)
                      THEN Out("convos_send", stdinWriter, NoLine, 0, "none", <<>>,
                               stdinWrite("send", w), Null, "none", 0, TRUE)
                      ELSE ToolOut("convos_send", "sent", stdinWrite("send", w), FALSE)
    /\ UNCHANGED <<ctrl, conversationId, inviteUrl, qrCodePath, router, cfg, procs, now,
                   hist>>

\* convos_react.execute
ConvosReact(w) ==
    /\ out' = IF stdinWriter = Null \/ ~isReady
              THEN ToolOut("convos_react", "error", <<>>, FALSE)
              ELSE ToolOut("convos_react", "reacted", stdinWrite("react", w), FALSE)
    /\ UNCHANGED <<ctrl, session, router, cfg, persisted, procs, now, hist>>

\* pi.on("input")
InputEvent(source) ==
    /\ lastMessageFromConvos' = IF source = "interactive" THEN FALSE
                                ELSE lastMessageFromConvos
    /\ out' = [Quiet("input") EXCEPT !.args = source]
    /\ UNCHANGED <<ctrl, session, headlessMode, ownInboxId, cfg, persisted, procs,
                   now, hist>>

\* what before_agent_start appends to the turn's system prompt
systemPrompt ==
    IF ~isReady THEN <<>>
    ELSE IF headlessMode
    THEN IF lastMessageFromConvos
         THEN <<Pub("systemPrompt", "remote_directive", FALSE, 0)>>
         ELSE <<>>
    ELSE IF lastMessageFromConvos
    THEN <<Pub("systemPrompt", "remote_directive", FALSE, 0)>>
    ELSE <<Pub("systemPrompt", "local_directive", FALSE, 0)>>

\* pi.on("before_agent_start"): a reasoning turn begins
BeforeAgentStart ==
    /\ out' = Out("before_agent_start", Null, NoLine, 0, "none", systemPrompt, <<>>,
                  Null, "none", 0, FALSE)
    /\ UNCHANGED <<ctrl, session, router, cfg, persisted, procs, now, hist>>

\* ------------------------------------------------------------- environment
\* the wall clock advances
Tick ==
    /\ now < MaxTs
    /\ now' = now + 1
    /\ out' = Quiet("tick")
    /\ UNCHANGED <<ctrl, session, router, cfg, persisted, procs, hist>>

\* ------------------------------------------------------------------- Next
\* what the handler of `line` reads from its collaborators: the answer of the
\* catch-up query and of getOwnInboxId() (a ready line that gets past the
\* guard of catchUpOnMissedMessages), the
\* outcome of the attachment download (an image message) and of the writes of
\* the record (a ready line, a message with sentAtNs)
LineInputs(line) ==
    LET catchesUp == discriminant(line) = "ready" /\ headlessMode
                     /\ convosEnvFile /\ lastSeenTimestampNs # Null
        persists == discriminant(line) = "ready"
                    \/ (discriminant(line) = "message" /\ line.sentAtNs # Null)
    IN [fetch : IF catchesUp THEN FetchResults(lastSeenTimestampNs) ELSE {NoFetch},
        ownRes : IF catchesUp THEN {Null, SelfInbox} ELSE {Null},
        dl : IF discriminant(line) = "message" /\ downloads(line)
             THEN {"ok", "failed", "nodir"} ELSE {"ok"},
        fsOk : IF persists THEN BOOLEAN ELSE {TRUE},
        fsOk2 : IF catchesUp THEN BOOLEAN ELSE {TRUE}]

Starts ==
    \/ \E hasUI \in BOOLEAN, cliFound \in BOOLEAN, initOk \in BOOLEAN :
          SessionStart(hasUI, cliFound, initOk)
    \/ \E argList \in ArgLists, cliFound \in BOOLEAN :
          ConvosStart(argList, cliFound)

Stops ==
    \/ \E w \in BOOLEAN : ConvosStop(w)
    \/ \E w \in BOOLEAN, fsOk \in BOOLEAN : SessionShutdown(w, fsOk)

\* a process prints one of `lines` on its stdout
Lines(lines) ==
    \E p \in Pids, line \in lines :
        \E in \in LineInputs(line) :
            LineHandler(p, line, in.fetch, in.ownRes, in.dl, in.fsOk, in.fsOk2)

ProcessEvents ==
    \/ \E p \in Pids : StderrLine(p, MaxStderrLines)
    \/ \E p \in Pids, code \in ExitCodes : Exit(p, code)
    \/ \E p \in Pids : GraceTimerFire(p)

Tools ==
    \/ \E w \in BOOLEAN, fsOk \in BOOLEAN : ConvosSend(w, fsOk)
    \/ \E w \in BOOLEAN : ConvosReact(w)

Inputs == \E source \in {"interactive", "rpc"} : InputEvent(source)

Turns == BeforeAgentStart

\* every handler, every input
Next ==
    \/ Starts \/ Stops \/ Lines(StdoutLines) \/ ProcessEvents
    \/ Tools \/ Inputs \/ Turns \/ Tick

Spec == Init /\ [][Next]_vars

\* ------------------------------------------------------- process supervision
\* The handlers that read or write the process table, the timers and the
\* readiness flag: start, stop, shutdown, the ready line, stderr, exit and the
\* grace timer, in a fresh interactive deployment (no env file). The handlers
\* left out (message and other lines, the tools, input, the clock) leave
\* agentProcess, stdinWriter, rl, isReady and every per-process variable
\* unchanged.
\* Which conversation a ready line names has no bearing on supervision, nor
\* has the outcome of the write that follows it (isReady is set first): one
\* line stands for all of them, and the file system accepts the write.
ReadyLine == Line("object", "ready", 1, 1, 1, Null, "none")

ReadyLines == \E p \in Pids : LineHandler(p, ReadyLine, NoFetch, Null, "ok", TRUE, TRUE)

Exits == \E p \in Pids, code \in ExitCodes : Exit(p, code)
Timers == \E p \in Pids : GraceTimerFire(p)
StderrLinesIn == \E p \in Pids : StderrLine(p, MaxStderrLines)

LifeInit == Init /\ persisted = NoRecord /\ worktreeRoot /\ ~convosEnvFile

LifeNext == Starts \/ Stops \/ ReadyLines \/ Exits \/ Timers

LifeSpec == LifeInit /\ [][LifeNext]_vars

\* a timer armed by setTimeout fires while the host's event loop runs
FairLifeSpec == LifeSpec /\ \A p \in Pids : WF_vars(GraceTimerFire(p))

\* the same with the error stream
DiagNext == LifeNext \/ StderrLinesIn

DiagSpec == LifeInit /\ [][DiagNext]_vars

\* ------------------------------------------------------------- one session
\* One controller instance that starts one process, over the record an
\* earlier instance left behind: every stdout line, the tools, input, the
\* clock, shutdown and the process's exit.
NoneSpawned == \A p \in Pids : pstate[p] = "none"

SessionNext ==
    \/ (NoneSpawned /\ Starts)
    \/ Lines(StdoutLines)
    \/ Tools
    \/ Inputs
    \/ \E w \in BOOLEAN, fsOk \in BOOLEAN : SessionShutdown(w, fsOk)
    \/ Exits
    \/ Tick

SessionSpec == Init /\ [][SessionNext]_vars

\* one process that prints a long error stream before it exits
BurstLinesIn == \E p \in Pids : StderrLine(p, MaxBurst)

BurstNext == (NoneSpawned /\ Starts) \/ BurstLinesIn \/ Exits

BurstSpec == LifeInit /\ [][BurstNext]_vars

\* one process that reports ready more than once: the conversation ids its
\* ready lines may name are the recorded ones and one more
ReadyIds == 1..(MaxConv + 1)

ReadyAgainLines ==
    {Line("object", "ready", c, u, u, Null, "none") : c \in ReadyIds, u \in {Null, 1}}

ReadyAgainIn ==
    \E p \in Pids, line \in ReadyAgainLines :
        LineHandler(p, line, NoFetch, Null, "ok", TRUE, TRUE)

ReadyNext == (NoneSpawned /\ Starts) \/ ReadyAgainIn \/ Stops \/ Timers \/ Exits

ReadySpec == LifeInit /\ [][ReadyNext]_vars

\* the life cycle when a start is requested only while no handle is held:
\* the host delivers session_start once and /convos-start after a stop
RestartNext == (agentProcess = Null /\ Starts) \/ Stops \/ ReadyLines \/ Exits \/ Timers

RestartSpec == LifeInit /\ [][RestartNext]_vars

\* ------------------------------------------------------------------- tools
\* Process supervision together with the two tools.
ToolNext == LifeNext \/ Tools

ToolSpec == LifeInit /\ [][ToolNext]_vars

\* ------------------------------------------------------------------ router
\* One process started in a fresh deployment without env file (interactive
\* or headless), its ready, message and member_joined lines, operator input,
\* the turns of the agent, and the process's exit. The file system accepts
\* every save of the record; the download of an attachment may fail.
RouterLines ==
    {ReadyLine} \cup
    {l \in StdoutLines : l.event \in {"message", "member_joined"}}

RouterLinesIn ==
    \E p \in Pids, line \in RouterLines, dl \in {"ok", "failed", "nodir"} :
        LineHandler(p, line, NoFetch, Null, dl, TRUE, TRUE)

RouterNext ==
    \/ (NoneSpawned /\ Starts)
    \/ RouterLinesIn
    \/ Inputs
    \/ Turns
    \/ Exits

RouterSpec == LifeInit /\ [][RouterNext]_vars

\* the life cycle with every event a process reports on stdout, the message
\* being one text sent at time 1
StopLines ==
    {ReadyLine} \cup
    {l \in StdoutLines : /\ l.event \in {"message", "member_joined", "error"}
                         /\ l.attachment = "none"
                         /\ l.event = "message" => l.sentAtNs = 1}

StopLinesIn ==
    \E p \in Pids, line \in StopLines :
        LineHandler(p, line, NoFetch, Null, "ok", TRUE, TRUE)

StopNext == Starts \/ Stops \/ StopLinesIn \/ Exits \/ Timers

StopSpec == LifeInit /\ [][StopNext]_vars

\* ------------------------------------------------------------------ resume
\* One start over whatever file an earlier instance left at the config path,
\* the ready line of the process it spawns, and the process's exit.
ResumeNext == (NoneSpawned /\ Starts) \/ Lines({ReadyLine}) \/ Exits

ResumeSpec == Init /\ [][ResumeNext]_vars

\* ------------------------------------------------------------------ claims
LiveProcs == {p \in Pids : Live(p)}
Stopped(p) == timer[p] # "none"

\* C1 (as claimed): at most one spawned process is live (started and not yet
\* exited) at any time.
C1_AtMostOneLive == Cardinality(LiveProcs) <= 1

\* C2 (as claimed): a start request (/convos-start or session_start) made
\* while a spawned process is live spawns nothing and leaves handle, writer,
\* line reader, readiness and session unchanged.
C2_StartRefusedWhileLive ==
    [][(LiveProcs # {} /\ out'.op \in {"convos-start", "session_start"})
          => (out'.spawned = Null /\ UNCHANGED <<ctrl, session>>)]_vars

\* C3 (as claimed): the in-memory watermark never decreases within one
\* session (null counts as the lowest value).
C3_WatermarkMonotone == [][lastSeenTimestampNs' >= lastSeenTimestampNs]_vars

\* C4 (as claimed): after a restart the watermark in the persisted record is
\* never lower than, nor erased relative to, the one written before the
\* restart.
C4_NoRegressionAcrossRestart == persisted.lastSeenTimestampNs >= wmBeforeRestart

\* C5 (as claimed): the exit of a process that had reached ready and was then
\* stopped is never reported as a startup failure, whatever the exit code.
C5_StoppedExitNotFailure ==
    (out.op = "exit" /\ everReady[out.pid] /\ Stopped(out.pid))
        => \A i \in 1..Len(out.pubs) : out.pubs[i].type # "startup_failure"

\* C6 (as claimed): the exit of a process that had emitted ready is reported
\* as exactly one informational exit notice, whatever the code and whether or
\* not it was stopped in between.
C6_ReadyExitOneNotice ==
    (out.op = "exit" /\ everReady[out.pid])
        => (Len(out.pubs) = 1 /\ out.pubs[1].type = "process_exited")

\* the last min(n, cap) of the lines 1..n, in arrival order
LastLines(n, cap) ==
    LET k == IF n < cap THEN n ELSE cap IN [i \in 1..k |-> n - k + i]

\* C7 (as claimed): a process that exits with a non-zero code before emitting
\* ready yields exactly one startup-failure publish whose diagnostic content
\* is the last min(n, 50) of its n error-stream lines, in arrival order.
C7_StartupFailureDiagnostics ==
    (out.op = "exit" /\ ~everReady[out.pid] /\ out.code # 0)
        => /\ Len(out.pubs) = 1
           /\ out.pubs[1].type = "startup_failure"
           /\ out.pubs[1].data.stderr = LastLines(stderrCount[out.pid], StderrCap)

\* C8: once a process's exit has been observed no forced-termination signal
\* is sent to it: a grace timer that fires afterwards is a no-op.
C8_NoSignalAfterExit ==
    [][\A p \in Pids : pstate[p] = "exited" => signals'[p] = signals[p]]_vars

\* C8 witness: a stopped process exited first, its grace timer fired later,
\* and no signal was sent.
C8_Witness ==
    \E p \in Pids : pstate[p] = "exited" /\ timer[p] = "fired" /\ signals[p] = 0

\* C9: a stopped process that does not exit before its grace timer fires is
\* sent the forced-termination signal, and no process is ever sent more than
\* one, whatever stop requests and shutdowns follow.
C9_ExactlyOneSignal ==
    /\ \A p \in Pids : [](signals[p] <= 1)
    /\ \A p \in Pids :
          (timer[p] = "armed") ~> (pstate[p] = "exited" \/ signals[p] = 1)

\* C9 witness: a process that was still live when its grace timer fired got
\* its one signal, and a later stop request has just been handled.
C9_Witness ==
    /\ out.op \in {"convos-stop", "session_shutdown"}
    /\ \E p \in Pids : timer[p] = "fired" /\ signals[p] = 1 /\ Live(p)

\* C10 (as claimed): a well-formed line with a recognized discriminant is
\* dispatched as that event, once; any other line produces no event, no
\* publish, and lets no exception escape the line handler.
C10_LineDispatch ==
    out.op = "line" =>
        IF out.line.json = "object" /\ out.line.event \in Recognized
        THEN out.event = out.line.event
        ELSE out.event = "none" /\ out.pubs = <<>> /\ ~out.threw

\* the newest send-time among fetched messages
MaxSentAt(ms) ==
    CHOOSE t \in {ms[i].sentAtNs : i \in 1..Len(ms)} :
        \A i \in 1..Len(ms) : ms[i].sentAtNs <= t

\* the ready handler ran a reconciliation whose query was answered with a list
Reconciled ==
    out.op = "line" /\ out.event = "ready" /\ out.queries = 1 /\ out.fetch.ok

\* the reconciliation's catch block ran
CatchUpCaught == \E i \in 1..Len(out.pubs) : out.pubs[i].type = "catchup_failed"

\* every fetched message carries text
AllText(ms) == \A i \in 1..Len(ms) : ms[i].text

\* C11 (as claimed, for text messages and a file system that accepts the save):
\* after a reconciliation whose fetch returned a non-empty list the watermark
\* is the newest send-time among all fetched messages, self-authored ones
\* included, and the record holds that value.
C11_WatermarkIsNewestFetched ==
    (Reconciled /\ out.fetch.messages # <<>> /\ AllText(out.fetch.messages)
        /\ ~CatchUpCaught)
        => /\ lastSeenTimestampNs = MaxSentAt(out.fetch.messages)
           /\ persisted.lastSeenTimestampNs = MaxSentAt(out.fetch.messages)

\* the publishes of the most recent handler that are missed-message steers
Steers == SelectSeq(out.pubs, LAMBDA b : b.type = "missed")

\* the fetched messages that the bridge did not send itself
NonSelf(ms) == SelectSeq(ms, LAMBDA m : m.senderInboxId # SelfInbox)

\* C12 (as claimed, for text messages and a file system that accepts the
\* save): a reconciliation publishes one steer message when some fetched
\* message is not self-authored and none otherwise, and its summary lists
\* exactly the fetched non-self messages, in fetch order, each with its sender.
C12_OneSteerOfNonSelf ==
    (Reconciled /\ AllText(out.fetch.messages) /\ ~CatchUpCaught)
        => IF NonSelf(out.fetch.messages) = <<>>
           THEN Steers = <<>>
           ELSE /\ Len(Steers) = 1
                /\ Steers[1].data = summaryOf(NonSelf(out.fetch.messages))

\* C13: when the catch-up query fails, times out or answers with an empty
\* list, the reconciliation publishes no steer message, leaves the watermark
\* as it was and the record as the ready handler's own save wrote it, lets no
\* exception escape, and the ready handler goes on to publish its notice.
C13_FailedQuerySilent ==
    [][(/\ out'.op = "line" /\ out'.event = "ready" /\ out'.queries = 1
        /\ (~out'.fetch.ok \/ out'.fetch.messages = <<>>))
       => /\ \A i \in 1..Len(out'.pubs) : out'.pubs[i].type # "missed"
          /\ lastSeenTimestampNs' = lastSeenTimestampNs
          /\ persisted' = persistState(conversationId', inviteUrl',
                                       lastSeenTimestampNs, persisted, TRUE)
          /\ ~out'.threw
          /\ out'.pubs[Len(out'.pubs)].type = "ready"]_vars

\* C13 witness: a ready handler whose catch-up query failed has completed.
C13_Witness ==
    /\ out.op = "line" /\ out.event = "ready" /\ out.queries = 1
    /\ ~out.fetch.ok /\ CatchUpCaught

\* C14 (as claimed, for two consecutive handler runs): a handler issues a
\* catch-up query only if a watermark was stored when the session started and
\* the handler run just before it issued none.
C14_AtMostOneQuery ==
    [][out'.queries > 0 => (wmBeforeRestart # Null /\ out.queries = 0)]_vars

\* C15 (as claimed, for two consecutive handler runs): in a session resumed
\* over a stored watermark, a reconciliation's steer message is never
\* published by the handler run that follows the publish of a live message.
C15_ReconcileBeforeLive ==
    [][(/\ wmBeforeRestart # Null
        /\ out.op = "line" /\ out.event = "message" /\ out.pubs # <<>>)
          => ~(\E i \in 1..Len(out'.pubs) : out'.pubs[i].type = "missed")]_vars

\* the Session fields that the record holds
Saved(conv, invite, wm) ==
    [kind |-> "json", conversationId |-> conv, inviteUrl |-> invite,
     lastSeenTimestampNs |-> wm]

\* C16 (as claimed, for line handlers and convos_send where a config path
\* exists and no save fails): when a handler has changed conversationId,
\* inviteUrl or the watermark, the record holds the in-memory values.
C16_MutationsPersisted ==
    [][(/\ out'.op \in {"line", "convos_send"} /\ HasConfigPath /\ ~out'.threw
        /\ \A i \in 1..Len(out'.pubs) : out'.pubs[i].type # "catchup_failed"
        /\ <<conversationId, inviteUrl, lastSeenTimestampNs>>'
              # <<conversationId, inviteUrl, lastSeenTimestampNs>>)
       => persisted' = Saved(conversationId', inviteUrl', lastSeenTimestampNs')]_vars

\* C17 (as claimed): a convos_send whose command was not written to the
\* process's stdin leaves the Session and the record unchanged.
C17_DroppedSendNoMutation ==
    [][(out'.op = "convos_send" /\ out'.writes = <<>>)
          => UNCHANGED <<conversationId, inviteUrl, lastSeenTimestampNs, persisted>>]_vars

\* C18 (as claimed, where a config path exists, no file is there yet and the
\* file system accepts the write): saving the current Session and loading it
\* back gives the same conversationId, inviteUrl and watermark.
C18_SaveLoadRoundTrip ==
    (HasConfigPath /\ persisted.kind = "missing")
        => load(persistState(conversationId, inviteUrl, lastSeenTimestampNs,
                             persisted, TRUE)).state
             = [Saved(conversationId, inviteUrl, lastSeenTimestampNs)
                   EXCEPT !.kind = IF conversationId = Null THEN "missing" ELSE "json"]

\* C19 (as claimed): no exception leaves a ready or message handler or a
\* convos_send call, whatever the file system does to the save; the event is
\* published and the tool call returns its result.
C19_SaveFailureNotFatal ==
    ((out.op = "line" /\ out.event \in {"ready", "message"}) \/ out.op = "convos_send")
        => (~out.threw /\ out.pubs # <<>>)

\* C20: a start over a missing, unreadable or non-JSON file raises nothing,
\* takes no conversation and no watermark from the file, and a process it
\* spawns is started as for a new conversation.
C20_LoadNeverRaises ==
    (/\ out.op \in {"session_start", "convos-start"} /\ HasConfigPath
     /\ persisted.kind \in {"missing", "unreadable", "invalid"})
        => /\ ~out.threw
           /\ load(persisted) = [raised |-> FALSE, state |-> NoRecord]
           /\ lastSeenTimestampNs = Null
           /\ out.spawned # Null => out.args \in {"new", "explicit"}

\* C20 witness: a headless start over a file that is not JSON spawned a
\* process for a new conversation.
C20_Witness ==
    /\ out.op = "session_start" /\ HasConfigPath /\ persisted.kind = "invalid"
    /\ out.spawned # Null /\ out.args = "new"

\* C21 (as claimed): a turn that begins while the bridge is ready gets exactly
\* one directive, the remote one if lastMessageFromConvos is true and the
\* local one if it is false, in interactive and in headless mode.
C21_OneDirectivePerTurn ==
    (out.op = "before_agent_start" /\ isReady)
        => /\ Len(out.pubs) = 1
           /\ out.pubs[1].type = IF lastMessageFromConvos THEN "remote_directive"
                                 ELSE "local_directive"

\* the most recent handler published a turn-triggering event of the remote
\* conversation
RemoteTrigger ==
    /\ out.op = "line" /\ out.event \in {"message", "member_joined"}
    /\ \E i \in 1..Len(out.pubs) : out.pubs[i].triggerTurn

\* the most recent handler took input typed by the local operator
LocalTrigger == out.op = "input" /\ out.args = "interactive"

\* C22 (as claimed, in interactive mode, for the turn that begins right after
\* its trigger): while the bridge is ready, a turn triggered by a message or
\* member_joined event gets the remote directive, and a turn triggered by
\* operator input gets the local one.
C22_DirectiveMatchesTrigger ==
    [][(out'.op = "before_agent_start" /\ isReady /\ ~headlessMode)
          => /\ RemoteTrigger => out'.pubs = <<Pub("systemPrompt", "remote_directive", FALSE, 0)>>
             /\ LocalTrigger => out'.pubs = <<Pub("systemPrompt", "local_directive", FALSE, 0)>>]_vars

\* the turn-triggering publishes of the most recent handler
TurnTriggers == SelectSeq(out.pubs, LAMBDA b : b.triggerTurn)

\* C23 (as claimed): a dispatched message event results in exactly one
\* turn-triggering publish.
C23_OneTriggerPerMessage ==
    (out.op = "line" /\ out.event = "message") => Len(TurnTriggers) = 1

\* C24: when the download or the read of an image attachment fails, the
\* message handler publishes exactly one text notice that triggers a turn and
\* names the original event, publishes no image, throws nothing, and the
\* event's sentAtNs has become the watermark.
C24_DownloadFailureDegrades ==
    [][\A p \in Pids, line \in StdoutLines :
          (/\ discriminant(line) = "message" /\ downloads(line)
           /\ LineHandler(p, line, NoFetch, Null, "failed", TRUE, TRUE))
          => /\ out'.pubs = <<Pub("sendMessage", "download_failed", TRUE, line.sentAtNs)>>
             /\ ~out'.threw
             /\ line.sentAtNs # Null => lastSeenTimestampNs' = line.sentAtNs]_vars

\* C24 witness: the handler of an image message with a send time has published
\* the download-failure notice.
C24_Witness ==
    /\ out.op = "line" /\ out.event = "message" /\ out.line.attachment = "image"
    /\ out.line.sentAtNs # Null /\ lastSeenTimestampNs = out.line.sentAtNs
    /\ Len(out.pubs) = 1 /\ out.pubs[1].type = "download_failed"

\* the command a handler writes to the process
OwnCommand(op) ==
    CASE op = "convos_send" -> "send"
      [] op = "convos_react" -> "react"
      [] op \in {"convos-stop", "session_shutdown"} -> "stop"
      [] OTHER -> "none"

\* C25: a handler run during which the process's stdin does not report
\* writable writes nothing, and whatever a handler writes is its own single
\* command: a dropped command is not written by any later handler.
C25_WriteOnlyIfWritable ==
    [][/\ \A fsOk \in BOOLEAN :
            (\/ ConvosSend(FALSE, fsOk) \/ ConvosReact(FALSE)
             \/ ConvosStop(FALSE) \/ SessionShutdown(FALSE, fsOk))
            => out'.writes = <<>>
       /\ out'.writes # <<>>
            => Len(out'.writes) = 1 /\ out'.writes[1].cmd = OwnCommand(out'.op)]_vars

\* C25 witness: a convos_send that got past the readiness guard found stdin
\* not writable and wrote nothing.
C25_Witness ==
    /\ out.op = "convos_send" /\ out.writes = <<>>
    /\ out.pubs = <<Pub("toolResult", "sent", FALSE, 0)>>

\* C26 (as claimed): a tool writes only to a process that is live and has
\* reported ready; when there is no such process it returns an error, writes
\* nothing and leaves the Session and the record unchanged.
C26_ToolsOnlyWhenReady ==
    [][out'.op \in {"convos_send", "convos_react"}
          => /\ out'.writes # <<>>
                  => Live(out'.writes[1].pid) /\ everReady[out'.writes[1].pid]
             /\ (~\E p \in Pids : Live(p) /\ everReady[p])
                  => /\ out'.writes = <<>>
                     /\ out'.pubs = <<Pub("toolResult", "error", FALSE, 0)>>
                     /\ UNCHANGED <<session, persisted>>]_vars

\* C27: a stop requested while no process is live writes no command, arms no
\* timer, sends no signal and changes no controller state (a session_shutdown
\* still records the clock as watermark before it calls stopAgent).
C27_StopWithoutProcessNoOp ==
    [][(LiveProcs = {} /\ out'.op \in {"convos-stop", "session_shutdown"})
          => /\ out'.writes = <<>>
             /\ UNCHANGED <<ctrl, procs>>
             /\ out'.op = "convos-stop" => UNCHANGED <<session, router, persisted>>]_vars

\* C27 witness: /convos-stop was handled after the only process had exited.
C27_Witness ==
    /\ out.op = "convos-stop" /\ LiveProcs = {}
    /\ \E p \in Pids : pstate[p] = "exited"

\* C28: the diagnostic buffer of a process never holds more than 50 lines
\* and always holds the most recent min(n, 50) of the n lines received, in
\* arrival order.
C28_BufferIsLastFifty ==
    \A p \in Pids :
        /\ Len(stderrLines[p]) <= StderrCap
        /\ stderrLines[p] = LastLines(stderrCount[p], StderrCap)

\* C28 witness: a process has printed more than 50 lines and the buffer has
\* dropped the oldest of them.
C28_Witness ==
    \E p \in Pids :
        /\ stderrCount[p] > StderrCap
        /\ Len(stderrLines[p]) = StderrCap
        /\ stderrLines[p][1] > 1

\* C29: a headless auto-start or a /convos-start that does not find the CLI
\* ends with one notice and spawns nothing; handle, writer, readiness, the
\* session fields and every process stay as they were.
C29_NoCliNoStart ==
    [][\A h \in ArgLists, i \in BOOLEAN :
          /\ SessionStart(FALSE, FALSE, i)
                => /\ out'.pubs = <<Pub("console", "cli_not_found", FALSE, 0)>>
                   /\ out'.spawned = Null
                   /\ UNCHANGED <<ctrl, session, pstate>>
          /\ (agentProcess = Null /\ ConvosStart(h, FALSE))
                => /\ out'.pubs = <<Pub("notify", "cli_not_found", FALSE, 0)>>
                   /\ out'.spawned = Null
                   /\ UNCHANGED <<ctrl, session, pstate>>]_vars

\* C29 witness: after a process ran and exited, /convos-start did not find
\* the CLI and gave its notice.
C29_Witness ==
    /\ out.op = "convos-start"
    /\ out.pubs = <<Pub("notify", "cli_not_found", FALSE, 0)>>
    /\ \E p \in Pids : pstate[p] = "exited"

\* C30 (as claimed): a ready line of a process that has already reported
\* ready changes neither conversationId nor the conversationId of the record.
C30_ConversationIdSetOnce ==
    [][\A p \in Pids :
          (everReady[p] /\ out'.op = "line" /\ out'.pid = p /\ out'.event = "ready")
             => /\ conversationId' = conversationId
                /\ persisted'.conversationId = persisted.conversationId]_vars

\* C31 (as claimed): the readiness flag goes from false to true only on the
\* first ready line of the current process, one that was neither stopped nor
\* superseded; and it goes back to false only when a process that had reported
\* ready is stopped or exits.
C31_ReadyOncePerInstance ==
    [][/\ \A p \in Pids :
            (out'.op = "line" /\ out'.pid = p /\ out'.event = "ready"
                /\ ~isReady /\ isReady')
               => (agentProcess = p /\ ~everReady[p] /\ ~Stopped(p))
       /\ (isReady /\ ~isReady')
            => /\ out'.op \in {"exit", "convos-stop", "session_shutdown"}
               /\ out'.pid # Null /\ everReady[out'.pid]]_vars

\* C32 (as claimed): a /convos-start whose arguments hold no conversation id,
\* and the headless auto-start, attach the new process to the conversation of
\* the record when the record names one.
C32_ResumesSavedConversation ==
    [][/\ \A argList \in ArgLists :
            (/\ \A i \in 1..Len(argList) : argList[i] # "conv"
             /\ agentProcess = Null /\ loadPersistedConversation # Null
             /\ ConvosStart(argList, TRUE))
               => (out'.spawned # Null /\ out'.args = "resume")
       /\ \A initOk \in BOOLEAN :
            (/\ loadPersistedConversation # Null
             /\ SessionStart(FALSE, TRUE, initOk) /\ out'.spawned # Null)
               => out'.args = "resume"]_vars

\* C33 (as claimed): when the exit of a stopped process P is notified while
\* another process Q is the current one, Q's handle, writer, line reader and
\* readiness flag stay as they were.
C33_LateExitLeavesSuccessor ==
    [][\A p \in Pids :
          (/\ Stopped(p) /\ agentProcess # Null /\ agentProcess # p
           /\ out'.op = "exit" /\ out'.pid = p)
             => /\ UNCHANGED ctrl
                /\ rlOpen'[agentProcess] = rlOpen[agentProcess]]_vars

\* C34 (as claimed): whenever the readiness flag is true, handle and writer
\* are set and belong to a process that has reported ready.
C34_ReadyImpliesUsable ==
    isReady => /\ agentProcess # Null /\ Live(agentProcess)
               /\ stdinWriter = agentProcess
               /\ everReady[agentProcess]

\* C35 (as claimed): when session_shutdown has run to its end, every process
\* that was started and has not exited has been stopped: its stop was
\* requested and its forced-termination timer is armed or has fired.
C35_ShutdownStopsAll ==
    [][(out'.op = "session_shutdown" /\ ~out'.threw)
          => \A p \in Pids : pstate'[p] = "live" => timer'[p] # "none"]_vars

\* C36: no stdout line of a process is handled once stopAgent has stopped
\* that process, so none of its events is published or changes readiness, the
\* routing flag or the session.
C36_StoppedProcessSilent ==
    [][\A p \in Pids : Stopped(p) => ~(out'.op = "line" /\ out'.pid = p)]_vars

\* C36 witness: /convos-stop has stopped a process that had reported ready
\* and is still running, and its line reader is closed.
C36_Witness ==
    /\ out.op = "convos-stop" /\ out.pid # Null
    /\ Live(out.pid) /\ everReady[out.pid] /\ Stopped(out.pid)
    /\ ~rlOpen[out.pid]

\* C37 (as claimed): no line of a catch-up summary names the bridge's own
\* inbox as sender, whatever getOwnInboxId() returned.
C37_SummaryHasNoSelf ==
    Reconciled
        => \A i \in 1..Len(Steers) : \A j \in 1..Len(Steers[i].data) :
               Steers[i].data[j].senderInboxId # SelfInbox

\* C38 (as claimed): a message event without sentAtNs leaves the watermark
\* and the record as they were, is published as exactly one turn trigger, and
\* sets the routing flag.
C38_UntimedMessageFrame ==
    [][(out'.op = "line" /\ out'.event = "message" /\ out'.line.sentAtNs = Null)
          => /\ UNCHANGED <<lastSeenTimestampNs, persisted>>
             /\ lastMessageFromConvos'
             /\ Len(SelectSeq(out'.pubs, LAMBDA b : b.triggerTurn)) = 1]_vars

====
